---- MODULE Spec2Model ----
(***************************************************************************)
(* Machine Task Protocol: the Executor pipeline (executor.js), the         *)
(* capability registry (capability-manager.js), the Requester              *)
(* (requester.js) and the identity / canonical codec                       *)
(* (identity-manager.js), as one state machine.                            *)
(*                                                                         *)
(* JavaScript values are modelled as nodes [t, a, kids]:                   *)
(*   t    the type tag (undefined, null, number, string, function, array,  *)
(*        object),                                                         *)
(*   a    the lexeme of a number or the characters of a string,            *)
(*   kids the own properties of an object in insertion order, or the       *)
(*        elements of an array, as entries [key, val].                     *)
(* Canonical forms and signatures are strings, built by concatenation as   *)
(* the code builds them.                                                   *)
(***************************************************************************)
EXTENDS Integers, Sequences, FiniteSets, TLC

VARIABLES
    now,            \* Date.now(), the wall clock in milliseconds
    identity,       \* Executor.identity: id, privateKey, publicKey
    capabilities,   \* CapabilityManager.capabilities, in registration order
    handlers,       \* Executor.handlers: Map capability id -> handler
    uuid,           \* source of uuidv4() values
    created,        \* the tasks Requester.createTask has returned
    inflight,       \* executeTask invocations awaiting their handler
    done,           \* the invocation that has just ended, until its caller
                    \* takes the outcome
    calls,          \* number of API calls made so far
    codec,          \* one use of IdentityManager on its own: the data, its
                    \* signature, and the outcome of sign and of verify
    reply           \* the last direct call of validateCapability or
                    \* getPublicInfo: its arguments and what it returned

vars == <<now, identity, capabilities, handlers, uuid, created, inflight, done, calls, codec, reply>>

(***************************************************************************)
(* Bounds of the model: the last clock reading (the first is 1), and the   *)
(* number of calls of addCapability, createTask and executeTask in a run.  *)
(***************************************************************************)
MaxTime == 2
MaxCalls == 4

(***************************************************************************)
(* JavaScript values.                                                      *)
(***************************************************************************)
Atom(t, a) == [t |-> t, a |-> a, kids |-> <<>>]
Undefined == Atom("undefined", "")
Null == Atom("null", "")
Num(a) == Atom("number", a)
Str(a) == Atom("string", a)
Entry(k, v) == [key |-> k, val |-> v]
Obj(entries) == [t |-> "object", a |-> "", kids |-> entries]
Arr(elems) == [t |-> "array", a |-> "", kids |-> [i \in DOMAIN elems |-> Entry("", elems[i])]]

\* obj.hasOwnProperty(k)
HasOwn(o, k) == o.t = "object" /\ \E i \in DOMAIN o.kids : o.kids[i].key = k

\* obj[k] / the destructuring { k } = obj, for an object or a primitive
Get(o, k) ==
    IF HasOwn(o, k)
    THEN o.kids[CHOOSE i \in DOMAIN o.kids : o.kids[i].key = k].val
    ELSE Undefined

\* obj[k] = v: an existing property keeps its place, a new one is appended
With(o, k, v) ==
    IF HasOwn(o, k)
    THEN Obj([i \in DOMAIN o.kids |-> IF o.kids[i].key = k THEN Entry(k, v) ELSE o.kids[i]])
    ELSE Obj(Append(o.kids, Entry(k, v)))

\* const { k, ...rest } = obj
Without(o, k) == Obj(SelectSeq(o.kids, LAMBDA e : e.key # k))

(***************************************************************************)
(* IdentityManager.stableStringify.                                        *)
(***************************************************************************)
\* The property names of the model in the order Array.prototype.sort()
\* (UTF-16 code units) puts them.
KeyOrder ==
    <<"a", "answer", "b", "capabilityId", "error", "executorId", "message",
      "payload", "publicKey", "requesterId", "result", "signature", "status",
      "taskId", "timestamp", "x">>

\* a mutant of SortedKeys: Object.keys(obj), in insertion order
SortedKeysInsertionOrder(o) == [i \in DOMAIN o.kids |-> o.kids[i].key]

\* Object.keys(obj).sort()
SortedKeys(o) == SelectSeq(KeyOrder, LAMBDA k : HasOwn(o, k))

\* JSON.stringify of a primitive: a string, or undefined for undefined.
\* Non-finite numbers serialize as null and negative zero as 0; the strings
\* of the model hold no character that needs escaping.
JSONstringify(v) ==
    CASE v.t \in {"undefined", "function"} -> Undefined
      [] v.t = "null" -> Str("null")
      [] v.t = "number" ->
            Str(IF v.a \in {"NaN", "Infinity", "-Infinity"} THEN "null"
                ELSE IF v.a = "-0" THEN "0" ELSE v.a)
      [] v.t = "string" -> Str("\"" \o v.a \o "\"")

\* Array.prototype.join(','): undefined and null elements join as ''
RECURSIVE Join(_)
Join(parts) ==
    IF Len(parts) = 0 THEN ""
    ELSE LET h == IF Head(parts).t = "string" THEN Head(parts).a ELSE ""
         IN IF Len(parts) = 1 THEN h ELSE h \o "," \o Join(Tail(parts))

\* a mutant of stableStringify: a property without a value is written as null
RECURSIVE stableStringifyNullForAbsent(_)
stableStringifyNullForAbsent(obj) ==
    IF obj.t \notin {"object", "array"} THEN JSONstringify(obj)
    ELSE IF obj.t = "array"
    THEN Str("[" \o Join([i \in DOMAIN obj.kids |->
                              stableStringifyNullForAbsent(obj.kids[i].val)]) \o "]")
    ELSE LET keys == SortedKeys(obj)
             parts == [i \in DOMAIN keys |->
                          Str(JSONstringify(Str(keys[i])).a \o ":"
                              \o (IF Get(obj, keys[i]).t \in {"undefined", "function"}
                                  THEN "null"
                                  ELSE stableStringifyNullForAbsent(Get(obj, keys[i])).a))]
         IN Str("{" \o Join(parts) \o "}")

RECURSIVE stableStringify(_)
stableStringify(obj) ==
    IF obj.t \notin {"object", "array"} THEN JSONstringify(obj)
    ELSE IF obj.t = "array"
    THEN Str("[" \o Join([i \in DOMAIN obj.kids |-> stableStringify(obj.kids[i].val)]) \o "]")
    ELSE LET keys == SelectSeq(SortedKeys(obj),
                               LAMBDA k : Get(obj, k).t \notin {"undefined", "function"})
             parts == [i \in DOMAIN keys |->
                          Str(JSONstringify(Str(keys[i])).a \o ":"
                              \o stableStringify(Get(obj, keys[i])).a)]
         IN Str("{" \o Join(parts) \o "}")

(***************************************************************************)
(* IdentityManager: key pairs, sign, verify.                               *)
(***************************************************************************)
\* generateKeyPairSync('rsa', ...): one key pair per owner
KeyOwners == {"AlphaNode", "ClientOne", "Mallory"}
PrivateKey(n) == "sk:" \o n
PublicKey(n) == "pk:" \o n

\* new IdentityManager(name), at time 1: id, privateKey, publicKey
IdentityManager(name) ==
    [id |-> "did:mtp:" \o name \o ":1",
     privateKey |-> PrivateKey(name),
     publicKey |-> PublicKey(name)]

\* createSign('SHA256') ... sign.sign(privateKey, 'hex'): RSASSA-PKCS1-v1_5,
\* a deterministic function of the key and the signed bytes
RsaSign(privateKey, payload) == "rsa<" \o privateKey \o ">" \o payload

\* verify.verify(publicKey, signature, 'hex') where no exception is raised
RsaVerify(publicKey, payload, signature) ==
    \E n \in KeyOwners :
        publicKey = PublicKey(n) /\ signature = RsaSign(PrivateKey(n), payload)

\* this.sign(data), for the identity self
sign(self, data) == Str(RsaSign(self.privateKey, stableStringify(data).a))

\* IdentityManager.verify raises (verify.update(undefined)) when the data has
\* no canonical string; that statement is outside its try block
verifyThrows(data) == stableStringify(data).t # "string"

\* a mutant of verify: the signature is checked against every known key
verifyAnyKey(data, signature, publicKey) ==
    /\ signature.t = "string"
    /\ \E n \in KeyOwners : RsaVerify(PublicKey(n), stableStringify(data).a, signature.a)

\* IdentityManager.verify(data, signature, publicKey): a signature or key
\* that is no string, or no key at all, raises inside the try block: false
verify(data, signature, publicKey) ==
    /\ signature.t = "string"
    /\ publicKey.t = "string"
    /\ RsaVerify(publicKey.a, stableStringify(data).a, signature.a)

\* a call of sign(data): the signature returned, or the TypeError that
\* sign.update(undefined) raises when the data has no canonical string
signCall(self, data) ==
    IF stableStringify(data).t # "string"
    THEN [threw |-> TRUE, val |-> Undefined]
    ELSE [threw |-> FALSE, val |-> sign(self, data)]

\* a call of IdentityManager.verify(data, signature, publicKey): the boolean
\* returned, or the TypeError raised before the try block is entered
verifyCall(data, signature, publicKey) ==
    IF verifyThrows(data)
    THEN [threw |-> TRUE, val |-> FALSE]
    ELSE [threw |-> FALSE, val |-> verify(data, signature, publicKey)]

\* IdentityManager is not in use on its own
NoCodec ==
    [pc |-> "none", signer |-> "", orig |-> Undefined, data |-> Undefined,
     change |-> "", signature |-> Undefined, shown |-> Undefined,
     key |-> Undefined, verdict |-> [threw |-> FALSE, val |-> FALSE]]

(***************************************************************************)
(* The schema engine (zod): z.object({ k: z.number(), ... }).              *)
(***************************************************************************)
\* examples/server.js AddSchema, and a one-field schema
AddSchema == [shape |-> <<"a", "b">>]
UnarySchema == [shape |-> <<"a">>]

\* the issue z.number() raises for the value v at key k, '' when it has none
ZodIssue(k, v) ==
    IF v.t = "undefined" THEN k \o ": Required"
    ELSE IF v.t # "number" THEN k \o ": Expected number, received " \o v.t
    ELSE IF v.a = "NaN" THEN k \o ": Expected number, received nan"
    ELSE ""

\* schema.parse(input): the value returned, or the ZodError thrown. The value
\* returned holds the declared keys only (unknown keys are stripped).
ZodParse(schema, input) ==
    LET issues == IF input.t # "object"
                  THEN <<"Expected object, received " \o input.t>>
                  ELSE SelectSeq([i \in DOMAIN schema.shape |->
                                     ZodIssue(schema.shape[i], Get(input, schema.shape[i]))],
                                 LAMBDA m : m # "")
    IN IF Len(issues) = 0
       THEN [threw |-> FALSE,
             val |-> Obj([i \in DOMAIN schema.shape |->
                             Entry(schema.shape[i], Get(input, schema.shape[i]))])]
       ELSE [threw |-> TRUE,
             val |-> Obj(<<Entry("message",
                                 Str(Join([i \in DOMAIN issues |-> Str(issues[i])])))>>)]

(***************************************************************************)
(* CapabilityManager.                                                      *)
(***************************************************************************)
\* name.toLowerCase().replace(/\s+/g, '_') on the names of the model
Slug(name) == CASE name = "Add" -> "add" [] name = "add" -> "add" [] name = "Echo" -> "echo"

\* the capability object registerCapability builds and pushes
registerCapability(name, inputSchema, outputSchema, constraints) ==
    [id |-> "cap_" \o Slug(name) \o "_" \o ToString(now),
     name |-> name,
     _inputSchemaZod |-> inputSchema,
     _outputSchemaZod |-> outputSchema,
     description |-> "Capability for " \o name,
     constraints |-> constraints]

\* this.capabilities.find(c => c.id === capabilityId) over the registry caps:
\* the index of the first match, 0 when there is none
FindCapability(caps, capabilityId) ==
    LET hits == {i \in DOMAIN caps : capabilityId.t = "string" /\ caps[i].id = capabilityId.a}
    IN IF hits = {} THEN 0 ELSE CHOOSE i \in hits : \A j \in hits : i <= j

\* `${v}` in a template literal
TemplateString(v) ==
    CASE v.t \in {"string", "number"} -> v.a
      [] v.t \in {"undefined", "null"} -> v.t
      [] OTHER -> "[object Object]"

\* a mutant of validateCapability: an id the registry does not hold is let
\* through, the input returned as it is
validateCapabilityLenient(caps, capabilityId, input) ==
    LET i == FindCapability(caps, capabilityId)
    IN IF i = 0
       THEN [threw |-> FALSE, val |-> input]
       ELSE ZodParse(caps[i]._inputSchemaZod, input)

\* a mutant of validateCapability: the input is returned without being parsed
validateCapabilityNoParse(caps, capabilityId, input) ==
    IF FindCapability(caps, capabilityId) = 0
    THEN [threw |-> TRUE,
          val |-> Obj(<<Entry("message",
                              Str("Capability not found: " \o TemplateString(capabilityId)))>>)]
    ELSE [threw |-> FALSE, val |-> input]

\* validateCapability(capabilityId, input) over the registry caps: the value
\* returned or the error thrown
validateCapability(caps, capabilityId, input) ==
    LET i == FindCapability(caps, capabilityId)
    IN IF i = 0
       THEN [threw |-> TRUE,
             val |-> Obj(<<Entry("message",
                                 Str("Capability not found: " \o TemplateString(capabilityId)))>>)]
       ELSE ZodParse(caps[i]._inputSchemaZod, input)

\* a mutant of getCapabilities: the capability objects are returned whole
getCapabilitiesWithHandles(caps) ==
    Obj(<<Entry("executorId", Str(identity.id)),
          Entry("capabilities",
                Arr([i \in DOMAIN caps |->
                        Obj(<<Entry("id", Str(caps[i].id)),
                              Entry("name", Str(caps[i].name)),
                              Entry("_inputSchemaZod", Str("[object Object]")),
                              Entry("_outputSchemaZod", Str("[object Object]")),
                              Entry("description", Str(caps[i].description)),
                              Entry("constraints", caps[i].constraints),
                              Entry("schemaDescription",
                                    Str("Validators are internal to Executor instance"))>>)])),
          Entry("timestamp", Num(ToString(now)))>>)

\* getCapabilities() over the registry caps: each capability without its
\* two schema handles and with a schemaDescription
getCapabilities(caps) ==
    Obj(<<Entry("executorId", Str(identity.id)),
          Entry("capabilities",
                Arr([i \in DOMAIN caps |->
                        Obj(<<Entry("id", Str(caps[i].id)),
                              Entry("name", Str(caps[i].name)),
                              Entry("description", Str(caps[i].description)),
                              Entry("constraints", caps[i].constraints),
                              Entry("schemaDescription",
                                    Str("Validators are internal to Executor instance"))>>)])),
          Entry("timestamp", Num(ToString(now)))>>)

\* IdentityManager.getIdentity()
getIdentity(self) == Obj(<<Entry("id", Str(self.id)), Entry("publicKey", Str(self.publicKey))>>)

\* Executor.getPublicInfo()
getPublicInfo ==
    Obj(<<Entry("identity", getIdentity(identity)),
          Entry("capabilities", getCapabilities(capabilities))>>)

(***************************************************************************)
(* Executor.                                                               *)
(***************************************************************************)
\* a mutant of _createSignedResult: a failure is returned unsigned
createSignedResultUnsignedFailure(taskId, status, result, error) ==
    LET res == IF result.t = "undefined" THEN Null ELSE result
        err == IF error.t = "undefined" THEN Null ELSE error
        base == Obj(<<Entry("taskId", taskId),
                      Entry("executorId", Str(identity.id)),
                      Entry("status", Str(status)),
                      Entry("timestamp", Num(ToString(now)))>>)
    IN IF status = "success"
       THEN With(With(base, "result", res), "signature", sign(identity, With(base, "result", res)))
       ELSE With(base, "error", err)

\* a mutant of _createSignedResult: the parameters have no default
createSignedResultNoDefault(taskId, status, result, error) ==
    LET base == Obj(<<Entry("taskId", taskId),
                      Entry("executorId", Str(identity.id)),
                      Entry("status", Str(status)),
                      Entry("timestamp", Num(ToString(now)))>>)
        resultObject == IF status = "success"
                        THEN With(base, "result", result)
                        ELSE With(base, "error", error)
    IN With(resultObject, "signature", sign(identity, resultObject))

\* a mutant of _createSignedResult: both fields are always set
createSignedResultBothFields(taskId, status, result, error) ==
    LET res == IF result.t = "undefined" THEN Null ELSE result
        err == IF error.t = "undefined" THEN Null ELSE error
        resultObject == Obj(<<Entry("taskId", taskId),
                              Entry("executorId", Str(identity.id)),
                              Entry("status", Str(status)),
                              Entry("timestamp", Num(ToString(now))),
                              Entry("result", res),
                              Entry("error", err)>>)
    IN With(resultObject, "signature", sign(identity, resultObject))

\* _createSignedResult(taskId, status, result = null, error = null): an
\* undefined argument takes the parameter's default
createSignedResult(taskId, status, result, error) ==
    LET res == IF result.t = "undefined" THEN Null ELSE result
        err == IF error.t = "undefined" THEN Null ELSE error
        base == Obj(<<Entry("taskId", taskId),
                      Entry("executorId", Str(identity.id)),
                      Entry("status", Str(status)),
                      Entry("timestamp", Num(ToString(now)))>>)
        resultObject == IF status = "success"
                        THEN With(base, "result", res)
                        ELSE With(base, "error", err)
    IN With(resultObject, "signature", sign(identity, resultObject))

\* const dataToVerify = { taskId, requesterId, capabilityId, payload, timestamp }
dataToVerify(signedTask) ==
    Obj(<<Entry("taskId", Get(signedTask, "taskId")),
          Entry("requesterId", Get(signedTask, "requesterId")),
          Entry("capabilityId", Get(signedTask, "capabilityId")),
          Entry("payload", Get(signedTask, "payload")),
          Entry("timestamp", Get(signedTask, "timestamp"))>>)

\* a mutant of isValid: a task that carries no signature is let through
isValidUnsignedAccepted(signedTask) ==
    \/ Get(signedTask, "signature").t = "undefined"
    \/ verify(dataToVerify(signedTask), Get(signedTask, "signature"),
              Get(signedTask, "publicKey"))

\* step 1: IdentityManager.verify(dataToVerify, signature, publicKey)
isValid(signedTask) ==
    verify(dataToVerify(signedTask), Get(signedTask, "signature"), Get(signedTask, "publicKey"))

\* step 2: this.handlers.get(capabilityId) is truthy
HasHandler(hs, capabilityId) == capabilityId.t = "string" /\ capabilityId.a \in DOMAIN hs

\* the value step 4 passes to the handler
HandlerArgument(signedTask, validated) == Get(signedTask, "payload")

NoOutcome == [kind |-> "none", val |-> Undefined]

\* neither validateCapability nor getPublicInfo has been called directly
NoReply ==
    [call |-> "none", capabilityId |-> Undefined, input |-> Undefined,
     threw |-> FALSE, val |-> Undefined]

\* no invocation has just ended
Idle ==
    [task |-> Undefined, ncaps |-> 0, pc |-> "idle", gate |-> "", handler |-> "",
     calls |-> 0, arg |-> Undefined, outcome |-> NoOutcome, out |-> Undefined]

\* An invocation record: the task, the position of executeTask (awaiting
\* the handler, returned, threw), the Result returned, and for the properties
\* the number of capabilities registered when it started, the gate that
\* ended it, the handler called, the number of calls and their argument, and
\* the way the handler settled.
\* An invocation that has returned its Result at a gate:
Returned(signedTask, gate, result) ==
    [task |-> signedTask, ncaps |-> Len(capabilities), pc |-> "returned",
     gate |-> gate, handler |-> "", calls |-> 0, arg |-> Undefined,
     outcome |-> NoOutcome, out |-> result]

\* step 1 fails
AuthFailed(signedTask) ==
    Returned(signedTask, "auth",
             createSignedResult(Get(signedTask, "taskId"), "failure", Null,
                                Str("Invalid Task Signature: Auth Failed")))

\* a mutant of NotSupported: step 2 missing, the registry's lookup fails in step 3
NotSupportedLeftToRegistry(signedTask) ==
    Returned(signedTask, "lookup",
             createSignedResult(Get(signedTask, "taskId"), "failure", Null,
                 Str("Schema Validation Failed: Capability not found: "
                     \o TemplateString(Get(signedTask, "capabilityId")))))

\* step 2 fails
NotSupported(signedTask) ==
    Returned(signedTask, "lookup",
             createSignedResult(Get(signedTask, "taskId"), "failure", Null,
                 Str("Capability '" \o TemplateString(Get(signedTask, "capabilityId"))
                     \o "' not supported by this executor.")))

\* step 3 fails with the error e
SchemaFailed(signedTask, e) ==
    Returned(signedTask, "schema",
             createSignedResult(Get(signedTask, "taskId"), "failure", Null,
                 Str("Schema Validation Failed: " \o TemplateString(Get(e, "message")))))

\* step 4: handler(payload) is called and awaited
CallHandler(signedTask, validated) ==
    [task |-> signedTask, ncaps |-> Len(capabilities), pc |-> "awaiting",
     gate |-> "handler", handler |-> handlers[Get(signedTask, "capabilityId").a],
     calls |-> 1, arg |-> HandlerArgument(signedTask, validated),
     outcome |-> NoOutcome, out |-> Undefined]

\* a mutant of executeTaskSync: the capability is looked up before the
\* signature is checked
executeTaskSyncLookupFirst(signedTask) ==
    LET capabilityId == Get(signedTask, "capabilityId")
        checked == validateCapability(capabilities, capabilityId, Get(signedTask, "payload"))
    IN IF ~HasHandler(handlers, capabilityId) THEN NotSupported(signedTask)
       ELSE IF ~isValid(signedTask) THEN AuthFailed(signedTask)
       ELSE IF checked.threw THEN SchemaFailed(signedTask, checked.val)
       ELSE CallHandler(signedTask, checked.val)

\* a mutant of executeTaskSync: a task created at another clock reading is
\* turned away (a replay window)
executeTaskSyncReplayWindow(signedTask) ==
    LET capabilityId == Get(signedTask, "capabilityId")
        checked == validateCapability(capabilities, capabilityId, Get(signedTask, "payload"))
    IN IF ~isValid(signedTask) THEN AuthFailed(signedTask)
       ELSE IF Get(signedTask, "timestamp") # Num(ToString(now))
       THEN Returned(signedTask, "auth",
                     createSignedResult(Get(signedTask, "taskId"), "failure", Null,
                                        Str("Task expired")))
       ELSE IF ~HasHandler(handlers, capabilityId) THEN NotSupported(signedTask)
       ELSE IF checked.threw THEN SchemaFailed(signedTask, checked.val)
       ELSE CallHandler(signedTask, checked.val)

\* executeTask up to its await: steps 1 to 3 and the call of the handler
executeTaskSync(signedTask) ==
    LET capabilityId == Get(signedTask, "capabilityId")
        checked == validateCapability(capabilities, capabilityId, Get(signedTask, "payload"))
    IN IF ~isValid(signedTask) THEN AuthFailed(signedTask)
       ELSE IF ~HasHandler(handlers, capabilityId) THEN NotSupported(signedTask)
       ELSE IF checked.threw THEN SchemaFailed(signedTask, checked.val)
       ELSE CallHandler(signedTask, checked.val)

\* err.message in the catch block raises a TypeError for null and undefined
MessageThrows(err) == err.t \in {"null", "undefined"}

\* a mutant of executeTaskResume: the task id is read from a field the
\* invocations share, which holds the task of the oldest one in flight
executeTaskResumeSharedTask(i, outcome) ==
    LET taskId == Get(inflight[1].task, "taskId")
    IN IF outcome.kind = "return"
       THEN [i EXCEPT !.pc = "returned", !.outcome = outcome,
                      !.out = createSignedResult(taskId, "success", outcome.val, Undefined)]
       ELSE IF MessageThrows(outcome.val)
       THEN [i EXCEPT !.pc = "threw", !.outcome = outcome]
       ELSE [i EXCEPT !.pc = "returned", !.outcome = outcome,
                      !.out = createSignedResult(taskId, "failure", Null,
                                                 Get(outcome.val, "message"))]

\* executeTask after its await: step 5, or the catch block of step 4
executeTaskResume(i, outcome) ==
    LET taskId == Get(i.task, "taskId")
    IN IF outcome.kind = "return"
       THEN [i EXCEPT !.pc = "returned", !.outcome = outcome,
                      !.out = createSignedResult(taskId, "success", outcome.val, Undefined)]
       ELSE IF MessageThrows(outcome.val)
       THEN [i EXCEPT !.pc = "threw", !.outcome = outcome]
       ELSE [i EXCEPT !.pc = "returned", !.outcome = outcome,
                      !.out = createSignedResult(taskId, "failure", Null,
                                                 Get(outcome.val, "message"))]

(***************************************************************************)
(* Requester.                                                              *)
(***************************************************************************)
\* createTask(capabilityId, payload) by the requester whose identity is self
createTaskObject(self, capabilityId, payload) ==
    LET taskData == Obj(<<Entry("taskId", Str("uuid-" \o ToString(uuid))),
                          Entry("requesterId", Str(self.id)),
                          Entry("capabilityId", capabilityId),
                          Entry("payload", payload),
                          Entry("timestamp", Num(ToString(now)))>>)
    IN With(With(taskData, "signature", sign(self, taskData)),
            "publicKey", Str(self.publicKey))

\* verifyResult(signedResult, executorPublicKey)
verifyResult(signedResult, executorPublicKey) ==
    verify(Without(signedResult, "signature"), Get(signedResult, "signature"),
           executorPublicKey)

(***************************************************************************)
(* Inputs.                                                                 *)
(***************************************************************************)
Requesters == {"ClientOne"}

\* the addCapability calls of the model: name, input schema, output schema,
\* handler
Registrations ==
    {<<"Add", AddSchema, AddSchema, "h1">>,
     <<"add", UnarySchema, AddSchema, "h2">>}

\* the payload of the created tasks: accepted by UnarySchema, which does not
\* declare x, and rejected by AddSchema, which requires b
Payloads ==
    {Obj(<<Entry("x", Obj(<<Entry("b", Null)>>)), Entry("a", Num("0"))>>)}

AtomValues == {Undefined, Num("-0"), Num("NaN")}

OwnKeys(o) == {o.kids[i].key : i \in DOMAIN o.kids}

\* the values that differ from the object v in one field, top-level or nested
OneFieldChanged(v) ==
    ({With(v, k, w) : k \in OwnKeys(v), w \in AtomValues}
     \cup UNION {{With(v, k, With(Get(v, k), k2, w)) :
                     k2 \in OwnKeys(Get(v, k)), w \in AtomValues} :
                 k \in {k1 \in OwnKeys(v) : Get(v, k1).t = "object"}})
    \ {v}

\* what the transport can hand to executeTask for a created task: the task,
\* or the task with one payload field changed and its signature and public
\* key kept
Deliverable(task) ==
    {task} \cup {With(task, "payload", p) : p \in OneFieldChanged(Get(task, "payload"))}

\* what a handler call can do: return a value, or throw one (synchronously
\* or as a rejected promise: the await turns both into the catch block)
ReturnValues == {Undefined, Obj(<<Entry("answer", Num("0"))>>)}
ThrownValues == {Obj(<<Entry("message", Str("boom"))>>), Str("oops"), Null}
Outcomes ==
    {[kind |-> "return", val |-> v] : v \in ReturnValues}
    \cup {[kind |-> "throw", val |-> v] : v \in ThrownValues}

\* the capability ids a requester may target: the advertised ones and one
\* that no registration produces
TargetIds == {Str(capabilities[i].id) : i \in DOMAIN capabilities} \cup {Str("cap_none_0")}

(***************************************************************************)
(* Actions.                                                                *)
(***************************************************************************)
Init ==
    /\ now = 1
    /\ identity = IdentityManager("AlphaNode")
    /\ capabilities = <<>>
    /\ handlers = [id \in {} |-> ""]
    /\ uuid = 0
    /\ created = {}
    /\ inflight = <<>>
    /\ done = Idle
    /\ calls = 0
    /\ codec = NoCodec
    /\ reply = NoReply

\* time passes between two calls
Tick ==
    /\ done = Idle
    /\ now < MaxTime
    /\ now' = now + 1
    /\ UNCHANGED <<identity, capabilities, handlers, uuid, created, inflight, done, calls, codec, reply>>

\* a mutant of addCapability: the handler is bound to the capability's name
addCapabilityHandlerByName(name, inputSchema, outputSchema, handler) ==
    /\ done = Idle
    /\ calls < MaxCalls
    /\ calls' = calls + 1
    /\ LET cap == registerCapability(name, inputSchema, outputSchema, Obj(<<>>))
       IN /\ capabilities' = Append(capabilities, cap)
          /\ handlers' = [id \in DOMAIN handlers \cup {cap.name} |->
                             IF id = cap.name THEN handler ELSE handlers[id]]
    /\ UNCHANGED <<now, identity, uuid, created, inflight, done, codec, reply>>

\* Executor.addCapability(name, inputSchema, outputSchema, handler)
addCapability(name, inputSchema, outputSchema, handler) ==
    /\ done = Idle
    /\ calls < MaxCalls
    /\ calls' = calls + 1
    /\ LET cap == registerCapability(name, inputSchema, outputSchema, Obj(<<>>))
       IN /\ capabilities' = Append(capabilities, cap)
          /\ handlers' = [id \in DOMAIN handlers \cup {cap.id} |->
                             IF id = cap.id THEN handler ELSE handlers[id]]
    /\ UNCHANGED <<now, identity, uuid, created, inflight, done, codec, reply>>

\* Requester.createTask(capabilityId, payload)
createTask(r, capabilityId, payload) ==
    /\ done = Idle
    /\ calls < MaxCalls
    /\ calls' = calls + 1
    /\ created' = created \cup {createTaskObject(IdentityManager(r), capabilityId, payload)}
    /\ uuid' = uuid + 1
    /\ UNCHANGED <<now, identity, capabilities, handlers, inflight, done, codec, reply>>

\* a mutant of executeTask: a handler is unbound once it has been called
executeTaskConsumesHandler(signedTask) ==
    /\ done = Idle
    /\ calls < MaxCalls
    /\ calls' = calls + 1
    /\ LET i == executeTaskSync(signedTask)
       IN IF i.pc = "awaiting"
          THEN /\ inflight' = Append(inflight, i)
               /\ done' = done
               /\ handlers' = [id \in DOMAIN handlers \ {Get(signedTask, "capabilityId").a} |->
                                  handlers[id]]
          ELSE done' = i /\ inflight' = inflight /\ handlers' = handlers
    /\ UNCHANGED <<now, identity, capabilities, uuid, created, codec, reply>>

\* Executor.executeTask(signedTask), to its return or to its await
executeTask(signedTask) ==
    /\ done = Idle
    /\ calls < MaxCalls
    /\ calls' = calls + 1
    /\ LET i == executeTaskSync(signedTask)
       IN IF i.pc = "awaiting"
          THEN inflight' = Append(inflight, i) /\ done' = done
          ELSE done' = i /\ inflight' = inflight
    /\ UNCHANGED <<now, identity, capabilities, handlers, uuid, created, codec, reply>>

\* the handler of the n-th invocation in flight settles and executeTask runs
\* to its end
handlerSettles(n, outcome) ==
    /\ done = Idle
    /\ done' = executeTaskResume(inflight[n], outcome)
    /\ inflight' = [m \in 1..(Len(inflight) - 1) |->
                       IF m < n THEN inflight[m] ELSE inflight[m + 1]]
    /\ UNCHANGED <<now, identity, capabilities, handlers, uuid, created, calls, codec, reply>>

\* the caller of executeTask takes the Result, or the rejection
takeOutcome ==
    /\ done # Idle
    /\ done' = Idle
    /\ UNCHANGED <<now, identity, capabilities, handlers, uuid, created, inflight, calls, codec, reply>>

Next ==
    \/ Tick
    \/ \E reg \in Registrations : addCapability(reg[1], reg[2], reg[3], reg[4])
    \/ \E r \in Requesters, capabilityId \in TargetIds, payload \in Payloads :
          createTask(r, capabilityId, payload)
    \/ \E task \in created : \E signedTask \in Deliverable(task) : executeTask(signedTask)
    \/ \E n \in DOMAIN inflight, outcome \in Outcomes : handlerSettles(n, outcome)
    \/ takeOutcome

Spec == Init /\ [][Next]_vars

(***************************************************************************)
(* Properties.                                                             *)
(***************************************************************************)
ExecutorPublicKey == Str(identity.publicKey)

\* the invocations the state holds: those in flight and the one just ended
Invocations == {inflight[n] : n \in DOMAIN inflight} \cup (IF done = Idle THEN {} ELSE {done})

\* the registry as it was when the invocation i started
CapsAt(i) == SubSeq(capabilities, 1, i.ncaps)

\* the capability id of i's task had a registration when i started
RegisteredAt(i) == FindCapability(CapsAt(i), Get(i.task, "capabilityId")) # 0

\* the input schema the registry held for i's capability id when i started
InputSchemaAt(i) ==
    CapsAt(i)[FindCapability(CapsAt(i), Get(i.task, "capabilityId"))]._inputSchemaZod

\* what that schema makes of i's payload: the value parsed or the error
CheckedAt(i) == ZodParse(InputSchemaAt(i), Get(i.task, "payload"))

\* i's task is a created task with one payload field changed
Tampered(i) == \E t \in created : i.task \in Deliverable(t) \ {t}

IsFailure(i, message) ==
    /\ i.pc = "returned"
    /\ Get(i.out, "status") = Str("failure")
    /\ Get(i.out, "error") = Str(message)

\* C1: every Result executeTask returns, on whichever path, carries the
\* signature of the Executor's private key over its other fields, and
\* verifyResult accepts it under the Executor's public key.
C1_EveryResultSigned ==
    \A i \in Invocations :
        i.pc = "returned" =>
            /\ Get(i.out, "signature") = sign(identity, Without(i.out, "signature"))
            /\ verifyResult(i.out, ExecutorPublicKey)

C1_Witness ==
    /\ done.pc = "returned"
    /\ done.gate = "auth"
    /\ verifyResult(done.out, ExecutorPublicKey)

\* C2: a created task with one payload field changed, its signature and
\* public key kept, is rejected with the authentication diagnostic and its
\* handler is not called.
C2_TamperedPayloadRejected ==
    \A i \in Invocations :
        Tampered(i) => IsFailure(i, "Invalid Task Signature: Auth Failed") /\ i.calls = 0

\* C3: a correctly signed task whose capabilityId has no registration gets a
\* signed failure Result with the not-supported diagnostic, and no handler
\* is called.
C3_UnknownCapabilityRejected ==
    \A i \in Invocations :
        (isValid(i.task) /\ FindCapability(capabilities, Get(i.task, "capabilityId")) = 0) =>
            /\ IsFailure(i, "Capability '" \o Get(i.task, "capabilityId").a
                            \o "' not supported by this executor.")
            /\ verifyResult(i.out, ExecutorPublicKey)
            /\ i.calls = 0

C3_Witness ==
    /\ done.pc = "returned"
    /\ isValid(done.task)
    /\ FindCapability(capabilities, Get(done.task, "capabilityId")) = 0
    /\ done.calls = 0

\* C4: a correctly signed task for a registered capability whose input
\* schema rejects the payload gets a signed failure Result whose error is
\* "Schema Validation Failed: " and the schema engine's message, and the
\* handler is not called.
C4_SchemaGate ==
    \A i \in Invocations :
        (isValid(i.task) /\ RegisteredAt(i) /\ CheckedAt(i).threw) =>
            /\ IsFailure(i, "Schema Validation Failed: " \o Get(CheckedAt(i).val, "message").a)
            /\ verifyResult(i.out, ExecutorPublicKey)
            /\ i.calls = 0

C4_Witness ==
    /\ done.pc = "returned"
    /\ isValid(done.task)
    /\ RegisteredAt(done)
    /\ CheckedAt(done).threw
    /\ Get(done.out, "error") = Str("Schema Validation Failed: b: Required")

\* the invocation ended with its handler returning, for an unmodified
\* created task that passed the schema of a registered capability
SuccessCase(i) ==
    /\ i.pc # "awaiting"
    /\ i.task \in created
    /\ RegisteredAt(i)
    /\ ~CheckedAt(i).threw
    /\ i.outcome.kind = "return"

C6_HandlerGetsValidatedPayload ==
    \A i \in Invocations :
        i.calls > 0 =>
            /\ i.arg = CheckedAt(i).val
            /\ OwnKeys(i.arg) \subseteq
                   {InputSchemaAt(i).shape[n] : n \in DOMAIN InputSchemaAt(i).shape}

\* C7: executeTask never throws or rejects, whatever the handler throws, and
\* after a handler error the Result is a failure whose error is the message
\* of the value thrown.
C7_NeverThrows ==
    \A i \in Invocations :
        /\ i.pc # "threw"
        /\ i.outcome.kind = "throw" =>
               /\ i.pc = "returned"
               /\ Get(i.out, "status") = Str("failure")
               /\ Get(i.out, "error") = Get(i.outcome.val, "message")
               /\ verifyResult(i.out, ExecutorPublicKey)

\* C8: every Result has status success or failure, a result field exactly
\* when the status is success and an error field exactly when it is failure.
C8_ExactlyOneOfResultError ==
    \A i \in Invocations :
        i.pc = "returned" =>
            /\ Get(i.out, "status") \in {Str("success"), Str("failure")}
            /\ HasOwn(i.out, "result") <=> Get(i.out, "status") = Str("success")
            /\ HasOwn(i.out, "error") <=> Get(i.out, "status") = Str("failure")

C8_Witness ==
    /\ done.pc = "returned"
    /\ done.outcome = [kind |-> "return", val |-> Undefined]
    /\ HasOwn(done.out, "result")
    /\ ~HasOwn(done.out, "error")

\* the values a field holding old can be altered to
Alterations(old) ==
    (AtomValues \cup {Null, Num("1"), Str("failure"), Str("success")}
     \cup (IF old.t = "object" THEN OneFieldChanged(old) ELSE {}))
    \ {old}

ResultFields == {"status", "result", "error", "timestamp", "executorId"}

\* C9: a Result with one of the fields status, result, error, timestamp,
\* executorId altered after signing no longer verifies under the Executor's
\* public key.
C9_AlteredResultFailsVerification ==
    \A i \in Invocations :
        i.pc = "returned" =>
            \A f \in ResultFields :
                \A v \in Alterations(Get(i.out, f)) :
                    ~verifyResult(With(i.out, f, v), ExecutorPublicKey)

\* the keys a Requester may hold for an executor: the public keys of the
\* model, a string that is no key, and no key at all
CandidateKeys == {Str(PublicKey(n)) : n \in KeyOwners} \cup {Str("not a key"), Undefined}

\* the Results another identity can assemble from the Result r and sign with
\* its own private key
AssembledBy(who, r) ==
    {With(d, "signature", sign(IdentityManager(who), d)) :
        d \in {Without(r, "signature")} \cup OneFieldChanged(Without(r, "signature"))}

\* C10: a Result signed by the Executor verifies under no key but the
\* Executor's public key, and a Result another identity assembled and
\* signed does not verify under the Executor's public key.
C10_VerifiesOnlyUnderSignersKey ==
    \A i \in Invocations :
        i.pc = "returned" =>
            /\ \A k \in CandidateKeys : verifyResult(i.out, k) => k = ExecutorPublicKey
            /\ \A who \in KeyOwners \ {"AlphaNode"} :
                   \A r \in AssembledBy(who, i.out) :
                       /\ ~verifyResult(r, ExecutorPublicKey)
                       /\ \A k \in CandidateKeys :
                              verifyResult(r, k) => k = Str(PublicKey(who))

C10_Witness ==
    /\ done.pc = "returned"
    /\ Get(done.out, "status") = Str("success")
    /\ verifyResult(done.out, ExecutorPublicKey)
    /\ ~verifyResult(done.out, Str(PublicKey("Mallory")))
    /\ \E r \in AssembledBy("Mallory", done.out) : verifyResult(r, Str(PublicKey("Mallory")))

(***************************************************************************)
(* IdentityManager on its own: a value is signed, altered and verified.    *)
(***************************************************************************)
executorVars == <<now, identity, capabilities, handlers, uuid, created, inflight, done, calls>>

\* the values handed to sign
CodecValues ==
    {Undefined, Null, Num("0"),
     Arr(<<Num("0"), Null>>),
     Obj(<<Entry("b", Null), Entry("a", Num("0"))>>),
     Obj(<<Entry("x", Obj(<<Entry("b", Null), Entry("a", Num("0"))>>)),
           Entry("a", Arr(<<Num("0")>>))>>)}

\* the primitive values a place of a value can be set to
Scalars == {Undefined, Null, Num("0"), Num("-0"), Num("1"), Num("NaN"), Str("0")}

\* the property names a mapping of the model can gain
SpareKeys == {"a", "b", "x"}

\* the elements of an array
Elements(v) == [i \in DOMAIN v.kids |-> v.kids[i].val]

\* v with the value of its i-th property or element replaced
ReplaceKid(v, i, w) == [v EXCEPT !.kids[i].val = w]

\* v without its i-th property or element (delete obj[k], arr.splice(i, 1))
DropKid(v, i) ==
    [v EXCEPT !.kids = [m \in 1..(Len(v.kids) - 1) |->
                           IF m < i THEN v.kids[m] ELSE v.kids[m + 1]]]

Reverse(s) == [i \in DOMAIN s |-> s[Len(s) + 1 - i]]

\* the values obtained from v by one change: a primitive replaced by another,
\* a property or element set to another value, removed or added, at any depth
RECURSIVE Altered(_)
Altered(v) ==
    IF v.t \notin {"object", "array"} THEN Scalars \ {v}
    ELSE (UNION {{ReplaceKid(v, i, w) :
                     w \in Altered(v.kids[i].val)
                           \cup (IF v.kids[i].val.t \in {"object", "array"}
                                 THEN {Undefined, Null} ELSE {})} :
                 i \in DOMAIN v.kids}
          \cup {DropKid(v, i) : i \in DOMAIN v.kids}
          \cup (IF v.t = "array"
                THEN {Arr(Append(Elements(v), w)) : w \in {Undefined, Null}}
                     \cup {Arr(Reverse(Elements(v)))}
                ELSE {With(v, k, w) : k \in SpareKeys \ OwnKeys(v), w \in {Null, Num("0")}}))
         \ {v}

\* v with the properties of one of its mappings inserted in the other order
RECURSIVE Reorderings(_)
Reorderings(v) ==
    IF v.t \notin {"object", "array"} THEN {}
    ELSE (UNION {{ReplaceKid(v, i, w) : w \in Reorderings(v.kids[i].val)} :
                 i \in DOMAIN v.kids}
          \cup (IF v.t = "object" THEN {[v EXCEPT !.kids = Reverse(v.kids)]} ELSE {}))
         \ {v}

\* the same, at one or at two nesting depths
KeyOrders(v) == (Reorderings(v) \cup UNION {Reorderings(w) : w \in Reorderings(v)}) \ {v}

\* the mapping v with a property added whose value is undefined
AbsentAdded(v) ==
    IF v.t = "object" THEN {With(v, k, Undefined) : k \in SpareKeys \ OwnKeys(v)} ELSE {}

\* the signatures handed to verify: the one sign returned, a string that is
\* no signature, and none
ShownSignatures == {codec.signature, Str("zz"), Undefined}

CodecInit ==
    /\ now = 1
    /\ identity = IdentityManager("AlphaNode")
    /\ capabilities = <<>>
    /\ handlers = [id \in {} |-> ""]
    /\ uuid = 0
    /\ created = {}
    /\ inflight = <<>>
    /\ done = Idle
    /\ calls = 0
    /\ codec \in {[NoCodec EXCEPT !.pc = "start", !.signer = n, !.orig = d, !.data = d] :
                     n \in KeyOwners, d \in CodecValues}
    /\ reply = NoReply

\* new IdentityManager(signer).sign(data)
signData ==
    /\ codec.pc = "start"
    /\ LET r == signCall(IdentityManager(codec.signer), codec.orig)
       IN codec' = [codec EXCEPT !.pc = IF r.threw THEN "signThrew" ELSE "signed",
                                 !.signature = r.val]
    /\ UNCHANGED <<executorVars, reply>>

\* the signed value is changed in one place, rebuilt with another insertion
\* order, or given a property without a value
alterData(change, d) ==
    /\ codec.pc = "signed"
    /\ codec' = [codec EXCEPT !.pc = "altered", !.change = change, !.data = d]
    /\ UNCHANGED <<executorVars, reply>>

\* IdentityManager.verify(data, signature, publicKey)
verifyData(signature, publicKey) ==
    /\ codec.pc \in {"start", "signed", "altered"}
    /\ LET r == verifyCall(codec.data, signature, publicKey)
       IN codec' = [codec EXCEPT !.pc = IF r.threw THEN "verifyThrew" ELSE "verified",
                                 !.shown = signature, !.key = publicKey, !.verdict = r]
    /\ UNCHANGED <<executorVars, reply>>

CodecNext ==
    \/ signData
    \/ \E d \in Altered(codec.orig) : alterData("field", d)
    \/ \E d \in KeyOrders(codec.orig) : alterData("order", d)
    \/ \E d \in AbsentAdded(codec.orig) : alterData("absent", d)
    \/ \E signature \in ShownSignatures, publicKey \in CandidateKeys :
          verifyData(signature, publicKey)

CodecSpec == CodecInit /\ [][CodecNext]_vars

(***************************************************************************)
(* Properties of IdentityManager.                                          *)
(***************************************************************************)
\* verify was called with the signature sign returned and the signer's
\* public key
VerifiedAsSigned ==
    /\ codec.pc \in {"verified", "verifyThrew"}
    /\ codec.signature.t = "string"
    /\ codec.shown = codec.signature
    /\ codec.key = Str(PublicKey(codec.signer))

\* C11: a value verifies under its signature and the signer's public key,
\* and a value with one field changed after signing does not.
C11_SignVerifyRoundTrip ==
    VerifiedAsSigned =>
        /\ codec.pc = "verified"
        /\ codec.change = "" => codec.verdict.val
        /\ codec.change = "field" => ~codec.verdict.val

\* C12: IdentityManager.verify returns a boolean and never throws, whatever
\* the data, the signature and the public key are.
C12_VerifyNeverThrows == codec.pc # "verifyThrew"

\* the properties of a mapping that have a value
PresentKeys(o) == {k \in OwnKeys(o) : Get(o, k).t # "undefined"}

\* a and b are the same value: the same primitive (0 and -0 are equal
\* numbers), sequences of the same values in the same order, or mappings with
\* the same present keys and the same values, whatever the insertion order
RECURSIVE SameValue(_, _)
SameValue(a, b) ==
    IF a.t # b.t THEN FALSE
    ELSE IF a.t = "array"
    THEN /\ Len(a.kids) = Len(b.kids)
         /\ \A i \in DOMAIN a.kids : SameValue(a.kids[i].val, b.kids[i].val)
    ELSE IF a.t = "object"
    THEN /\ PresentKeys(a) = PresentKeys(b)
         /\ \A k \in PresentKeys(a) : SameValue(Get(a, k), Get(b, k))
    ELSE a.a = b.a \/ (a.t = "number" /\ {a.a, b.a} = {"0", "-0"})

\* C13: a value has one canonical string, so that it verifies under its own
\* signature, and mappings with the same keys and values, inserted in
\* another order at any depth, have the same canonical string and verify
\* under the same signature.
C13_CanonicalStable ==
    /\ codec.change = "order" =>
           /\ SameValue(codec.data, codec.orig)
           /\ stableStringify(codec.data) = stableStringify(codec.orig)
    /\ (VerifiedAsSigned /\ codec.change \in {"", "order"}) =>
           codec.pc = "verified" /\ codec.verdict.val

C13_Witness ==
    /\ VerifiedAsSigned
    /\ codec.change = "order"
    /\ Get(codec.data, "x") # Get(codec.orig, "x")
    /\ codec.data.kids[1].key # codec.orig.kids[1].key
    /\ codec.verdict.val

\* C14: two structurally different values have different canonical strings,
\* and the signature of one does not verify for the other.
C14_CanonicalExact ==
    (codec.change = "field" /\ ~SameValue(codec.data, codec.orig)) =>
        /\ stableStringify(codec.data) # stableStringify(codec.orig)
        /\ VerifiedAsSigned => ~codec.verdict.val

\* C15: a property whose value is undefined is left out of the canonical
\* string, and a property whose value is null is not: adding the first to a
\* mapping keeps its canonical string, adding the second changes it.
C15_AbsentOmittedNullEmitted ==
    /\ codec.change = "absent" =>
           /\ stableStringify(codec.data) = stableStringify(codec.orig)
           /\ VerifiedAsSigned => codec.verdict.val
    /\ (codec.change = "field"
        /\ \E k \in SpareKeys \ OwnKeys(codec.orig) : codec.data = With(codec.orig, k, Null)) =>
           /\ stableStringify(codec.data) # stableStringify(codec.orig)
           /\ VerifiedAsSigned => ~codec.verdict.val

C15_Witness ==
    /\ VerifiedAsSigned
    /\ codec.change = "absent"
    /\ HasOwn(codec.data, "x")
    /\ ~HasOwn(codec.orig, "x")
    /\ Get(codec.orig, "b") = Null
    /\ codec.verdict.val

(***************************************************************************)
(* Properties of the registry and of the pipeline.                         *)
(***************************************************************************)
\* C16: the ids of the registered capabilities are pairwise distinct.
C16_CapabilityIdsDistinct ==
    \A i, j \in DOMAIN capabilities :
        i # j => capabilities[i].id # capabilities[j].id

\* C17: no step removes or changes a registered capability or the handler
\* bound to a capability id; registrations only add entries.
C17_RegistryAppendOnly ==
    [][/\ Len(capabilities') >= Len(capabilities)
       /\ \A i \in DOMAIN capabilities : capabilities'[i] = capabilities[i]
       /\ \A id \in DOMAIN handlers :
              id \in DOMAIN handlers' /\ handlers'[id] = handlers[id]]_vars

\* C18: an invocation calls the handler at most once, and once exactly when
\* the signature, lookup and schema gates pass; an invocation that has ended
\* has returned one Result.
C18_HandlerOncePerInvocation ==
    \A i \in Invocations :
        /\ i.calls \in {0, 1}
        /\ i.calls = 1 <=> (isValid(i.task) /\ RegisteredAt(i) /\ ~CheckedAt(i).threw)
        /\ i.pc # "awaiting" => (i.pc = "returned" /\ i.out.t = "object")

(***************************************************************************)
(* An Executor whose registry is complete: tasks are created, submitted    *)
(* any number of times and run concurrently.                               *)
(***************************************************************************)
\* the state after new Executor("AlphaNode") and
\* addCapability("add", UnarySchema, AddSchema, h2) at clock reading 1
ConcInit ==
    /\ now = 1
    /\ identity = IdentityManager("AlphaNode")
    /\ capabilities = <<registerCapability("add", UnarySchema, AddSchema, Obj(<<>>))>>
    /\ handlers = [id \in {capabilities[1].id} |-> "h2"]
    /\ uuid = 0
    /\ created = {}
    /\ inflight = <<>>
    /\ done = Idle
    /\ calls = 0
    /\ codec = NoCodec
    /\ reply = NoReply

ConcNext ==
    \/ Tick
    \/ \E r \in Requesters, capabilityId \in TargetIds, payload \in Payloads :
          createTask(r, capabilityId, payload)
    \/ \E task \in created : executeTask(task)
    \/ \E n \in DOMAIN inflight, outcome \in Outcomes : handlerSettles(n, outcome)
    \/ takeOutcome

ConcSpec == ConcInit /\ [][ConcNext]_vars

\* the created task passes the three gates of the current registry
PassesGates(task) ==
    /\ isValid(task)
    /\ HasHandler(handlers, Get(task, "capabilityId"))
    /\ ~validateCapability(capabilities, Get(task, "capabilityId"), Get(task, "payload")).threw

OwnOutcome(i) ==
    LET failure(message) == [status |-> Str("failure"), result |-> Undefined, error |-> message]
        capabilityId == Get(i.task, "capabilityId")
    IN IF ~isValid(i.task) THEN failure(Str("Invalid Task Signature: Auth Failed"))
       ELSE IF ~RegisteredAt(i)
       THEN failure(Str("Capability '" \o TemplateString(capabilityId)
                        \o "' not supported by this executor."))
       ELSE IF CheckedAt(i).threw
       THEN failure(Str("Schema Validation Failed: " \o Get(CheckedAt(i).val, "message").a))
       ELSE IF i.outcome.kind = "return"
       THEN [status |-> Str("success"),
             result |-> IF i.outcome.val = Undefined THEN Null ELSE i.outcome.val,
             error |-> Undefined]
       ELSE failure(IF Get(i.outcome.val, "message") = Undefined THEN Null
                    ELSE Get(i.outcome.val, "message"))

\* C20: whatever else is in flight, the Result an invocation returns has the
\* taskId of its own task, the Executor's id, and the status, result and
\* error of its own task and handler outcome.
C20_ResultIsOwn ==
    \A i \in Invocations :
        i.pc = "returned" =>
            /\ Get(i.out, "taskId") = Get(i.task, "taskId")
            /\ Get(i.out, "executorId") = Str(identity.id)
            /\ [status |-> Get(i.out, "status"), result |-> Get(i.out, "result"),
                error |-> Get(i.out, "error")] = OwnOutcome(i)

C20_Witness ==
    /\ done.pc = "returned"
    /\ done.gate = "handler"
    /\ Len(inflight) = 1
    /\ Get(inflight[1].task, "taskId") # Get(done.task, "taskId")
    /\ Get(done.out, "taskId") = Get(done.task, "taskId")

(***************************************************************************)
(* Properties of the pipeline: suspension, order of the gates, frame.      *)
(***************************************************************************)
\* C21: an invocation waits only on its handler: one rejected at a gate has
\* returned without a handler call, one that waits has called its handler
\* and returns only when the handler has settled, and one whose handler has
\* settled has returned a signed Result; invocations that wait do not keep
\* executeTask from starting another.
C21_OnlyHandlerSuspends ==
    \A i \in Invocations :
        /\ i.gate # "handler" => (i.pc = "returned" /\ i.calls = 0)
        /\ i.pc = "awaiting" <=> (i.gate = "handler" /\ i.outcome.kind = "none")
        /\ i.outcome.kind # "none" =>
               /\ i.pc = "returned"
               /\ verifyResult(i.out, ExecutorPublicKey)

(***************************************************************************)
(* The registry on its own: capabilities are registered, and               *)
(* validateCapability and getPublicInfo are called directly.               *)
(***************************************************************************)
\* the inputs handed to validateCapability
ValidationInputs ==
    Payloads
    \cup {Undefined,
          Obj(<<Entry("a", Str("0"))>>),
          Obj(<<Entry("b", Num("2")), Entry("a", Num("1"))>>)}

\* capabilityManager.validateCapability(capabilityId, input)
validateCall(capabilityId, input) ==
    /\ LET r == validateCapability(capabilities, capabilityId, input)
       IN reply' = [call |-> "validateCapability", capabilityId |-> capabilityId,
                    input |-> input, threw |-> r.threw, val |-> r.val]
    /\ UNCHANGED <<executorVars, codec>>

\* executor.getPublicInfo()
discover ==
    /\ reply' = [NoReply EXCEPT !.call = "getPublicInfo", !.val = getPublicInfo]
    /\ UNCHANGED <<executorVars, codec>>

RegistryNext ==
    \/ Tick
    \/ \E reg \in Registrations : addCapability(reg[1], reg[2], reg[3], reg[4])
    \/ \E capabilityId \in TargetIds \cup {Undefined}, input \in ValidationInputs :
          validateCall(capabilityId, input)
    \/ discover

RegistrySpec == Init /\ [][RegistryNext]_vars

\* C22: validateCapability throws "Capability not found" when the registry
\* holds no capability with the id, throws the schema engine's error when the
\* input schema of the capability rejects the input, returns the schema
\* engine's value otherwise, and leaves the registry as it is.
C22_ValidateCapability ==
    [][reply'.call = "validateCapability" /\ reply' # reply =>
          /\ capabilities' = capabilities
          /\ handlers' = handlers
          /\ LET hits == {k \in DOMAIN capabilities :
                             reply'.capabilityId = Str(capabilities[k].id)}
                 first == CHOOSE k \in hits : \A j \in hits : k <= j
                 parsed == ZodParse(capabilities[first]._inputSchemaZod, reply'.input)
             IN IF hits = {}
                THEN /\ reply'.threw
                     /\ Get(reply'.val, "message")
                            = Str("Capability not found: " \o TemplateString(reply'.capabilityId))
                ELSE /\ reply'.threw = parsed.threw
                     /\ reply'.val = parsed.val]_vars

C22_Witness ==
    /\ reply.call = "validateCapability"
    /\ Len(capabilities) = 2
    /\ reply.capabilityId = Str("cap_none_0")
    /\ reply.threw
    /\ Get(reply.val, "message") = Str("Capability not found: cap_none_0")

\* C23: the discovery document holds the Executor's id and public key and
\* one entry for each registered capability, in registration order, with the
\* capability's id, name, description and constraints and without its schema
\* handles; producing it leaves the registry as it is.
C23_DiscoveryCatalogue ==
    [][reply'.call = "getPublicInfo" /\ reply' # reply =>
          /\ capabilities' = capabilities
          /\ handlers' = handlers
          /\ LET doc == reply'.val
                 list == Get(Get(doc, "capabilities"), "capabilities")
             IN /\ Get(Get(doc, "identity"), "id") = Str(identity.id)
                /\ Get(Get(doc, "identity"), "publicKey") = Str(identity.publicKey)
                /\ Get(Get(doc, "capabilities"), "executorId") = Str(identity.id)
                /\ list.t = "array"
                /\ Len(list.kids) = Len(capabilities)
                /\ \A k \in DOMAIN capabilities :
                       LET entry == list.kids[k].val
                       IN /\ Get(entry, "id") = Str(capabilities[k].id)
                          /\ Get(entry, "name") = Str(capabilities[k].name)
                          /\ Get(entry, "description") = Str(capabilities[k].description)
                          /\ Get(entry, "constraints") = capabilities[k].constraints
                          /\ OwnKeys(entry) \cap {"_inputSchemaZod", "_outputSchemaZod"} = {}]_vars

C23_Witness ==
    /\ reply.call = "getPublicInfo"
    /\ Len(capabilities) = 2
    /\ capabilities[1].name = "add"
    /\ capabilities[2].name = "Add"
    /\ Len(Get(Get(reply.val, "capabilities"), "capabilities").kids) = 2
    /\ Get(Get(Get(reply.val, "capabilities"), "capabilities").kids[2].val, "name") = Str("Add")

\* C24: the first gate that fails decides the Result: a task whose signature
\* does not verify gets the authentication diagnostic whatever its
\* capabilityId, a validly signed task for an unregistered capabilityId gets
\* the not-supported diagnostic whatever its payload, a registered one whose
\* payload the schema rejects gets the schema diagnostic, and the handler is
\* called only when all three gates have passed.
C24_GateOrder ==
    \A i \in Invocations :
        LET capabilityId == Get(i.task, "capabilityId")
        IN /\ ~isValid(i.task) =>
                  /\ i.gate = "auth"
                  /\ IsFailure(i, "Invalid Task Signature: Auth Failed")
           /\ (isValid(i.task) /\ ~RegisteredAt(i)) =>
                  /\ i.gate = "lookup"
                  /\ IsFailure(i, "Capability '" \o TemplateString(capabilityId)
                                  \o "' not supported by this executor.")
           /\ (isValid(i.task) /\ RegisteredAt(i) /\ CheckedAt(i).threw) =>
                  /\ i.gate = "schema"
                  /\ IsFailure(i, "Schema Validation Failed: "
                                  \o Get(CheckedAt(i).val, "message").a)
           /\ i.gate # "handler" => (i.calls = 0 /\ i.outcome = NoOutcome)
           /\ i.gate = "handler" =>
                  (isValid(i.task) /\ RegisteredAt(i) /\ ~CheckedAt(i).threw)

C24_Witness ==
    /\ done.pc = "returned"
    /\ ~isValid(done.task)
    /\ Len(capabilities) > 0
    /\ ~RegisteredAt(done)
    /\ IsFailure(done, "Invalid Task Signature: Auth Failed")

\* C25: a step of an executeTask invocation (its start, the settling of its
\* handler, its return) leaves the capability list, the handler map and the
\* Executor's identity as they were.
C25_ExecuteTaskFrame ==
    [][(inflight' # inflight \/ done' # done) =>
          /\ capabilities' = capabilities
          /\ handlers' = handlers
          /\ identity' = identity]_vars

C25_Witness ==
    /\ done.pc = "returned"
    /\ done.gate = "handler"
    /\ Len(inflight) = 1
    /\ Len(capabilities) = 1
    /\ Get(done.task, "capabilityId").a \in DOMAIN handlers

\* the handler passed in the addCapability call that registered cap
HandlerPassedWith(cap) == (CHOOSE reg \in Registrations : reg[1] = cap.name)[4]

\* C27: a handler is called only for a payload that the input schema
\* registered together with that handler accepts.
C27_SchemaHandlerPaired ==
    \A i \in Invocations :
        i.calls = 1 =>
            \E k \in 1..i.ncaps :
                /\ Str(capabilities[k].id) = Get(i.task, "capabilityId")
                /\ HandlerPassedWith(capabilities[k]) = i.handler
                /\ ~ZodParse(capabilities[k]._inputSchemaZod, Get(i.task, "payload")).threw

\* C28: the capability ids of the registry are the keys of the handler map,
\* no invocation ends with the registry's capability-not-found error, and a
\* validly signed task for an advertised capability id gets past the lookup.
C28_IdsAreHandlerKeys ==
    /\ {capabilities[k].id : k \in DOMAIN capabilities} = DOMAIN handlers
    /\ \A i \in Invocations :
           LET capabilityId == Get(i.task, "capabilityId")
           IN /\ i.pc = "returned" =>
                     Get(i.out, "error")
                         # Str("Schema Validation Failed: Capability not found: "
                               \o TemplateString(capabilityId))
              /\ (isValid(i.task) /\ RegisteredAt(i)) =>
                     /\ i.gate \in {"schema", "handler"}
                     /\ ~IsFailure(i, "Capability '" \o TemplateString(capabilityId)
                                      \o "' not supported by this executor.")

C28_Witness ==
    /\ Len(capabilities) = 2
    /\ Cardinality(DOMAIN handlers) = 2
    /\ done.pc = "returned"
    /\ isValid(done.task)
    /\ Get(done.task, "capabilityId") = Str(capabilities[2].id)
    /\ done.gate = "schema"

(***************************************************************************)
(* The signature gate: tasks reach executeTask with their signature or     *)
(* public key missing or malformed, or signed again by another identity.   *)
(***************************************************************************)
\* the task with its five signed fields kept, signed by who, with who's
\* public key attached
ResignedBy(who, task) ==
    With(With(dataToVerify(task), "signature",
              sign(IdentityManager(who), dataToVerify(task))),
         "publicKey", Str(PublicKey(who)))

\* what can be handed to executeTask for a created task
Presented(task) ==
    {task,
     Without(task, "signature"),
     With(task, "signature", Null),
     With(task, "signature", Num("1")),
     With(task, "signature", Str("zz")),
     Without(task, "publicKey"),
     With(task, "publicKey", Null),
     With(task, "publicKey", Str("not a key")),
     ResignedBy("Mallory", task)}

GateNext ==
    \/ Tick
    \/ \E r \in Requesters, capabilityId \in TargetIds, payload \in Payloads :
          createTask(r, capabilityId, payload)
    \/ \E task \in created : \E signedTask \in Presented(task) : executeTask(signedTask)
    \/ \E n \in DOMAIN inflight, outcome \in Outcomes : handlerSettles(n, outcome)
    \/ takeOutcome

GateSpec == ConcInit /\ [][GateNext]_vars

\* the field is missing, or is no hex signature and no PEM key
Malformed(v) == v.t # "string" \/ v.a \in {"zz", "not a key"}

\* C26: a task whose signature or publicKey is missing or malformed gets the
\* signed failure Result "Invalid Task Signature: Auth Failed"; executeTask
\* does not throw and calls no handler.
C26_MalformedSignatureRejected ==
    \A i \in Invocations :
        (Malformed(Get(i.task, "signature")) \/ Malformed(Get(i.task, "publicKey"))) =>
            /\ IsFailure(i, "Invalid Task Signature: Auth Failed")
            /\ verifyResult(i.out, ExecutorPublicKey)
            /\ i.calls = 0

C26_Witness ==
    /\ done.pc = "returned"
    /\ ~HasOwn(done.task, "signature")
    /\ Get(done.task, "publicKey") = Str(PublicKey("ClientOne"))
    /\ RegisteredAt(done)
    /\ IsFailure(done, "Invalid Task Signature: Auth Failed")

\* C29: a task passes the signature gate only if its signature was made
\* with the private key of the identity its requesterId names.
C29_SignatureBindsRequesterId ==
    \A i \in Invocations :
        i.gate # "auth" =>
            \E n \in KeyOwners :
                /\ Get(i.task, "requesterId") = Str(IdentityManager(n).id)
                /\ Get(i.task, "signature") = sign(IdentityManager(n), dataToVerify(i.task))

====
